---- MODULE Spec2Model ----
(***************************************************************************)
(* A model of uservoice-sso (src/lib/index.js): the UserVoiceSSO           *)
(* constructor, setDefault and createToken.                                *)
(*                                                                         *)
(* JavaScript values are records tagged by their type.  A string is the    *)
(* sequence of its code points, a Buffer the sequence of its bytes, an      *)
(* object the sequence of its own properties in insertion order (which is   *)
(* the order JSON.stringify writes them in for non-index keys).             *)
(*                                                                         *)
(* SHA-1 and AES-128-CBC are kept symbolic: a digest is the term built from *)
(* the hashed bytes, a ciphertext the term built from key, iv and the       *)
(* encrypted blocks.  Everything before the cipher (JSON text, UTF-8, the   *)
(* XOR with the iv, the padding, the Buffer/string coercions) is computed   *)
(* byte by byte.                                                           *)
(***************************************************************************)
EXTENDS Integers, Sequences, FiniteSets, TLC

VARIABLES gen, u, last, assigned

vars == <<gen, u, last, assigned>>

(***************************************************************************)
(* JavaScript values                                                       *)
(***************************************************************************)
Undefined == [t |-> "undefined"]
Null == [t |-> "null"]
Num(n) == [t |-> "number", n |-> n]
Str(s) == [t |-> "string", s |-> s]
Arr == [t |-> "array"]
Obj(props) == [t |-> "object", props |-> props]
P(k, v) == [k |-> k, v |-> v]

\* Strings of the runs, as code points.
kGuid == <<103, 117, 105, 100>>
kA == <<97>>
kB == <<98>>
sEmpty == <<>>
sX == <<120>>
sAbcd == <<97, 98, 99, 100>>
sAbcde == <<97, 98, 99, 100, 101>>
sEacute == <<233>>
sAbcdefEacute == <<97, 98, 99, 100, 101, 102, 233>>
sAbcdefgEacute == <<97, 98, 99, 100, 101, 102, 103, 233>>
sC == <<99>>
sBc == <<98, 99>>
sAb == <<97, 98>>
sA1 == <<97>>

\* Sequence helpers.
RECURSIVE Flatten(_)
Flatten(ss) == IF ss = <<>> THEN <<>> ELSE Head(ss) \o Flatten(Tail(ss))

Keys(props) == {props[i].k : i \in 1..Len(props)}
Has(props, k) == \E i \in 1..Len(props) : props[i].k = k
\* obj[k]: the property's value, undefined when the object has none.
Get(props, k) ==
  IF Has(props, k)
  THEN props[CHOOSE i \in 1..Len(props) : props[i].k = k].v
  ELSE Undefined
\* obj[k] = v: an existing property keeps its place, a new one goes last.
Put(props, k, v) ==
  IF Has(props, k)
  THEN [i \in 1..Len(props) |-> IF props[i].k = k THEN P(k, v) ELSE props[i]]
  ELSE Append(props, P(k, v))
\* The object as a mapping, its key order forgotten.
AsMap(props) == {<<props[i].k, props[i].v>> : i \in 1..Len(props)}

(***************************************************************************)
(* underscore                                                              *)
(***************************************************************************)
\* _.isObject: objects and arrays, not null, not primitives.
u_isObject(v) == v.t \in {"object", "array"}
\* _.isString
u_isString(v) == v.t = "string"
\* _.extend(obj, source): every property of source is assigned to obj.
RECURSIVE u_extend(_, _)
u_extend(obj, source) ==
  IF source = <<>> THEN obj
  ELSE u_extend(Put(obj, Head(source).k, Head(source).v), Tail(source))
\* Mutant: _.extend in the place of _.defaults, so that the defaults win.
u_defaultsExtend(obj, source) == u_extend(obj, source)

\* _.defaults(obj, source): a property of source is assigned where obj has none.
RECURSIVE u_defaults(_, _)
u_defaults(obj, source) ==
  IF source = <<>> THEN obj
  ELSE u_defaults(IF Get(obj, Head(source).k) = Undefined
                  THEN Put(obj, Head(source).k, Head(source).v)
                  ELSE obj,
                  Tail(source))

(***************************************************************************)
(* Buffers and strings: UTF-8, JSON text, XOR                              *)
(***************************************************************************)
ReplacementChar == <<65533>>

EncodeCp(c) ==
  IF c < 128 THEN <<c>>
  ELSE IF c < 2048 THEN <<192 + (c \div 64), 128 + (c % 64)>>
  ELSE IF c < 65536
       THEN <<224 + (c \div 4096), 128 + ((c \div 64) % 64), 128 + (c % 64)>>
  ELSE <<240 + (c \div 262144), 128 + ((c \div 4096) % 64),
         128 + ((c \div 64) % 64), 128 + (c % 64)>>

\* new Buffer(string, 'utf-8')
Utf8Encode(cps) == Flatten([i \in 1..Len(cps) |-> EncodeCp(cps[i])])

\* How many bytes follow a lead byte, and the range of the first of them.
Need(b) ==
  IF b < 128 THEN 0
  ELSE IF b >= 194 /\ b <= 223 THEN 1
  ELSE IF b >= 224 /\ b <= 239 THEN 2
  ELSE IF b >= 240 /\ b <= 244 THEN 3
  ELSE -1
Lower(b) == IF b = 224 THEN 160 ELSE IF b = 240 THEN 144 ELSE 128
Upper(b) == IF b = 237 THEN 159 ELSE IF b = 244 THEN 143 ELSE 191

\* The continuation bytes of the sequence led by bytes[i] that are in range.
RECURSIVE Follow(_, _, _, _)
Follow(bytes, i, j, need) ==
  IF j > need \/ i + j > Len(bytes) THEN j - 1
  ELSE LET b == bytes[i + j]
           lo == IF j = 1 THEN Lower(bytes[i]) ELSE 128
           hi == IF j = 1 THEN Upper(bytes[i]) ELSE 191
       IN IF b >= lo /\ b <= hi THEN Follow(bytes, i, j + 1, need) ELSE j - 1

CodePoint(bytes, i, need) ==
  IF need = 1 THEN (bytes[i] - 192) * 64 + (bytes[i + 1] - 128)
  ELSE IF need = 2
       THEN (bytes[i] - 224) * 4096 + (bytes[i + 1] - 128) * 64 + (bytes[i + 2] - 128)
  ELSE (bytes[i] - 240) * 262144 + (bytes[i + 1] - 128) * 4096
       + (bytes[i + 2] - 128) * 64 + (bytes[i + 3] - 128)

\* buffer.toString(): a malformed sequence decodes to U+FFFD.
RECURSIVE Utf8DecodeFrom(_, _)
Utf8DecodeFrom(bytes, i) ==
  IF i > Len(bytes) THEN <<>>
  ELSE LET b == bytes[i]
           need == Need(b)
       IN IF need = 0 THEN <<b>> \o Utf8DecodeFrom(bytes, i + 1)
          ELSE IF need = -1 THEN ReplacementChar \o Utf8DecodeFrom(bytes, i + 1)
          ELSE LET got == Follow(bytes, i, 1, need)
               IN IF got = need
                  THEN <<CodePoint(bytes, i, need)>> \o Utf8DecodeFrom(bytes, i + need + 1)
                  ELSE ReplacementChar \o Utf8DecodeFrom(bytes, i + got + 1)
Utf8Decode(bytes) == Utf8DecodeFrom(bytes, 1)

RECURSIVE Digits(_)
Digits(n) == IF n < 10 THEN <<48 + n>> ELSE Digits(n \div 10) \o <<48 + (n % 10)>>

\* A JSON string literal: the quote and the backslash are escaped.
JsonString(s) ==
  <<34>> \o Flatten([i \in 1..Len(s) |->
                       IF s[i] \in {34, 92} THEN <<92, s[i]>> ELSE <<s[i]>>]) \o <<34>>
JsonValue(v) == IF v.t = "string" THEN JsonString(v.s) ELSE Digits(v.n)
\* JSON.stringify of an object of strings and numbers: {"k":v,"k":v}
JsonStringify(props) ==
  <<123>> \o Flatten([i \in 1..Len(props) |->
                        (IF i = 1 THEN <<>> ELSE <<44>>)
                        \o JsonString(props[i].k) \o <<58>> \o JsonValue(props[i].v)])
  \o <<125>>

\* a ^ b on bytes
RECURSIVE BitXor(_, _)
BitXor(a, b) ==
  IF a = 0 THEN b
  ELSE IF b = 0 THEN a
  ELSE ((a + b) % 2) + 2 * BitXor(a \div 2, b \div 2)

\* _.range(0, n)
u_range(n) == 0..(n - 1)

(***************************************************************************)
(* The module                                                              *)
(***************************************************************************)
cryptoMode == "AES-128-CBC"

Throw(name, message) == [kind |-> "throw", name |-> name, message |-> message]

\* !v
Falsy(v) ==
  \/ v.t \in {"undefined", "null"}
  \/ v.t = "string" /\ v.s = <<>>
  \/ v.t = "number" /\ v.n = 0

\* Mutant: the constructor without its check of ssoKey.
UserVoiceSSO_NoKeyCheck(subdomain, ssoKey) ==
  IF Falsy(subdomain) THEN Throw("Error", "No UserVoice subdomain given")
  ELSE [kind |-> "return",
        this |-> [subdomain |-> subdomain, ssoKey |-> ssoKey, defaults |-> <<>>]]

\* new UserVoiceSSO(subdomain, ssoKey): the object, or what the constructor throws.
UserVoiceSSO(subdomain, ssoKey) ==
  IF Falsy(subdomain) THEN Throw("Error", "No UserVoice subdomain given")
  ELSE IF Falsy(ssoKey) THEN Throw("Error", "No SSO key given. Find it ")
  ELSE [kind |-> "return",
        this |-> [subdomain |-> subdomain, ssoKey |-> ssoKey, defaults |-> <<>>]]

\* Mutant: a mapping replaces the stored defaults (this.defaults = key).
setDefaultReplace(this, key, value) ==
  [this |-> IF u_isObject(key)
            THEN [this EXCEPT !.defaults = key.props]
            ELSE [this EXCEPT !.defaults = Put(this.defaults, key.s, value)],
   ret |-> Undefined]

\* this.setDefault(key, value): the object afterwards and the value returned.
setDefault(this, key, value) ==
  [this |-> IF u_isObject(key)
            THEN [this EXCEPT !.defaults = u_extend(this.defaults, key.props)]
            ELSE [this EXCEPT !.defaults = Put(this.defaults, key.s, value)],
   ret |-> Undefined]

\* Mutant: one iv Buffer shared by all calls, which a call XORs its payload
\* into (iv[i] = user[i] ^ iv[i]).
ivShared ==
  LET fresh == Utf8Encode(<<79, 112, 101, 110, 83, 83, 76, 32, 102, 111, 114, 32, 82, 117, 98, 121>>)
      done == {g \in DOMAIN last : last[g].op = "createToken" /\ last[g].out.res.kind = "return"}
  IN IF done = {} THEN fresh
     ELSE LET p == last[CHOOSE g \in done : TRUE].out.payload
          IN [j \in 1..16 |-> IF j <= Len(p) THEN BitXor(p[j], fresh[j]) ELSE fresh[j]]

\* iv = new Buffer('OpenSSL for Ruby')
iv == Utf8Encode(<<79, 112, 101, 110, 83, 83, 76, 32, 102, 111, 114, 32, 82, 117, 98, 121>>)

\* Mutant: the writes past the end of a short payload extend it, as they would
\* extend an array (undefined ^ iv[i] is iv[i]).
XorIVGrow(user, ivBuf) ==
  [j \in 1..(IF Len(user) < 16 THEN 16 ELSE Len(user)) |->
     IF j > Len(user) THEN ivBuf[j]
     ELSE IF (j - 1) \in u_range(16) THEN BitXor(user[j], ivBuf[j]) ELSE user[j]]

\* _.range(0, 16).forEach(i => user[i] = user[i] ^ iv[i]): a Buffer ignores a
\* write past its end.
XorIV(user, ivBuf) ==
  [j \in 1..Len(user) |->
     IF (j - 1) \in u_range(16) THEN BitXor(user[j], ivBuf[j]) ELSE user[j]]

\* Mutant: the subdomain hashed before the key.
saltedHashSwapped(this) ==
  [hash |-> "sha1", bytes |-> 16, of |-> Utf8Encode(this.subdomain.s \o this.ssoKey.s)]

\* crypto.createHash('sha1').update(ssoKey + subdomain, 'utf-8').digest().slice(0, 16)
saltedHash(this) ==
  [hash |-> "sha1", bytes |-> 16, of |-> Utf8Encode(this.ssoKey.s \o this.subdomain.s)]

\* padLen = 16 - user.length % 16, on the Buffer's byte length
padLen(user) == 16 - (Len(user) % 16)

\* user += String.fromCharCode(padLen), padLen times: the first += turns the
\* Buffer into the string it decodes to.
PadString(user, n) == Utf8Decode(user) \o [i \in 1..n |-> n]

\* cipher.update(data) with auto padding off and no final(): the whole blocks of
\* data are encrypted, a trailing partial block stays in the cipher.
CipherUpdate(key, ivBuf, data) ==
  [mode |-> cryptoMode, key |-> key, iv |-> ivBuf,
   blocks |-> SubSeq(data, 1, 16 * (Len(data) \div 16))]

\* encodeURIComponent(token.toString('base64'))
UrlBase64(ciphertext) == [encoding |-> "uri(base64)", of |-> ciphertext]

\* this.createToken(user): what is returned or thrown, the caller's object
\* afterwards, and the intermediate buffers of a call that returns.
createToken(this, user) ==
  IF ~u_isObject(user)
  THEN [res |-> Throw("ReferenceError", "callback is not defined"), user |-> user]
  ELSE IF ~u_isString(IF user.t = "object" THEN Get(user.props, kGuid) ELSE Undefined)
  THEN [res |-> Throw("ReferenceError", "callback is not defined"), user |-> user]
  ELSE LET merged == u_defaults(user.props, this.defaults)
           payload == Utf8Encode(JsonStringify(merged))
           xored == XorIV(payload, iv)
           n == padLen(xored)
           data == Utf8Encode(PadString(xored, n))
           key == saltedHash(this)
       IN [res |-> [kind |-> "return",
                    token |-> UrlBase64(CipherUpdate(key, iv, data))],
           user |-> Obj(merged),
           payload |-> payload, xored |-> xored, padLen |-> n, data |-> data,
           key |-> key]

(***************************************************************************)
(* The callers: generators 1 and 2, and one variable u holding the value   *)
(* the caller passes to createToken.  last[g] records the latest call on   *)
(* generator g with the state it was made in; assigned[g] is the mapping   *)
(* from each key to the value the latest setDefault naming it gave.        *)
(***************************************************************************)
Gens == {1, 2}
NoGen == [t |-> "none"]
NoCall == [op |-> "none"]

\* The largest number given as a default value.
MaxVal == 2
Vals == {Num(n) : n \in 1..MaxVal}

CtorSubdomains == {Undefined, Str(sEmpty), Str(sC)}
CtorKeys == {Undefined, Str(sEmpty), Str(sAb)}

\* setDefault(key, value) and setDefault(mapping)
SetDefaultArgs ==
  ({Str(kA), Str(kB)} \X Vals)
  \cup ({Obj(<<P(kA, Num(1)), P(kB, Num(2))>>), Obj(<<P(kB, Num(1))>>)} \X {Undefined})

G(s) == Obj(<<P(kGuid, Str(s))>>)
\* What the caller passes to createToken.
Literals ==
  { Undefined, Null, Num(5), Str(sX), Arr,
    Obj(<<P(kA, Num(1))>>), Obj(<<P(kGuid, Num(7))>>),
    G(sEmpty), G(sX), G(sAbcd), G(sAbcde), G(sEacute), G(sAbcdefEacute),
    G(sAbcdefgEacute),
    Obj(<<P(kGuid, Str(sX)), P(kB, Num(3))>>) }

Override(m, new) == {p \in m : ~\E q \in new : q[1] = p[1]} \cup new

Init ==
  /\ gen = [g \in Gens |-> NoGen]
  /\ u = Undefined
  /\ last = [g \in Gens |-> NoCall]
  /\ assigned = [g \in Gens |-> {}]

\* g = new UserVoiceSSO(subdomain, ssoKey)
Construct(g, subdomain, ssoKey) ==
  /\ gen[g] = NoGen
  /\ LET r == UserVoiceSSO(subdomain, ssoKey)
     IN /\ gen' = IF r.kind = "return" THEN [gen EXCEPT ![g] = r.this] ELSE gen
        /\ last' = [last EXCEPT ![g] =
                      [op |-> "new", subdomain |-> subdomain, ssoKey |-> ssoKey,
                       out |-> r]]
  /\ UNCHANGED <<u, assigned>>

\* g.setDefault(key, value)
SetDefault(g, key, value) ==
  /\ gen[g] # NoGen
  /\ LET r == setDefault(gen[g], key, value)
     IN /\ gen' = [gen EXCEPT ![g] = r.this]
        /\ last' = [last EXCEPT ![g] =
                      [op |-> "setDefault", key |-> key, value |-> value,
                       this |-> gen[g], out |-> r]]
  /\ assigned' = [assigned EXCEPT ![g] =
                    Override(@, IF u_isObject(key) THEN AsMap(key.props)
                                ELSE {<<key.s, value>>})]
  /\ UNCHANGED u

\* u = <literal>
Assign(lit) ==
  /\ u # lit
  /\ u' = lit
  /\ UNCHANGED <<gen, last, assigned>>

\* g.createToken(u): the object u refers to is the one the call works on.
CreateToken(g) ==
  /\ gen[g] # NoGen
  /\ LET r == createToken(gen[g], u)
     IN /\ u' = r.user
        /\ last' = [last EXCEPT ![g] =
                      [op |-> "createToken", user |-> u, this |-> gen[g], out |-> r]]
  /\ UNCHANGED <<gen, assigned>>

\* g.createToken(<literal>): the object is the call's own.
CreateTokenLit(g, lit) ==
  /\ gen[g] # NoGen
  /\ LET r == createToken(gen[g], lit)
     IN last' = [last EXCEPT ![g] =
                   [op |-> "createToken", user |-> lit, this |-> gen[g], out |-> r]]
  /\ UNCHANGED <<gen, u, assigned>>

\* One generator, every kind of argument.
Next ==
  \/ \E s \in CtorSubdomains, k \in CtorKeys : Construct(1, s, k)
  \/ \E a \in SetDefaultArgs : SetDefault(1, a[1], a[2])
  \/ \E lit \in Literals : Assign(lit)
  \/ CreateToken(1)

Spec == Init /\ [][Next]_vars

\* Two generators side by side.
PairCreds == {<<Str(sC), Str(sAb)>>, <<Str(sBc), Str(sA1)>>, <<Str(sC), Str(sA1)>>}
PairDefaultArgs ==
  {<<Str(kA), Num(1)>>, <<Str(kB), Num(2)>>,
   <<Obj(<<P(kA, Num(1)), P(kB, Num(2))>>), Undefined>>}
PairLiterals ==
  { G(sX),
    Obj(<<P(kGuid, Str(sX)), P(kB, Num(3))>>),
    Obj(<<P(kGuid, Str(sX)), P(kA, Num(1)), P(kB, Num(3))>>),
    Obj(<<P(kGuid, Str(sX)), P(kB, Num(3)), P(kA, Num(1))>>) }

InitPair ==
  /\ \E c \in PairCreds :
       gen = [g \in Gens |-> IF g = 1 THEN UserVoiceSSO(Str(sC), Str(sAb)).this
                             ELSE UserVoiceSSO(c[1], c[2]).this]
  /\ u = Undefined
  /\ last = [g \in Gens |-> NoCall]
  /\ assigned = [g \in Gens |-> {}]

NextPair ==
  \E g \in Gens :
    \/ \E a \in PairDefaultArgs : SetDefault(g, a[1], a[2])
    \/ \E lit \in PairLiterals : CreateTokenLit(g, lit)

SpecPair == InitPair /\ [][NextPair]_vars

(***************************************************************************)
(* Properties                                                              *)
(***************************************************************************)
Called(g) == last[g].op = "createToken"
Returned(g) == Called(g) /\ last[g].out.res.kind = "return"
Thrown(g) == Called(g) /\ last[g].out.res.kind = "throw"
Token(g) == last[g].out.res.token
SameCreds(g, h) ==
  /\ last[g].this.subdomain = last[h].this.subdomain
  /\ last[g].this.ssoKey = last[h].this.ssoKey
Concat(this) == this.ssoKey.s \o this.subdomain.s
IsMapping(v) == v.t = "object"
\* A mapping whose guid is missing, not a string, or the empty string.
BadGuid(v) ==
  \/ Get(v.props, kGuid).t # "string"
  \/ Get(v.props, kGuid).s = <<>>
\* The ASCII bytes of "OpenSSL for Ruby".
IvAscii == <<79, 112, 101, 110, 83, 83, 76, 32, 102, 111, 114, 32, 82, 117, 98, 121>>
\* The entries of d whose key m lacks, in d's order.
Missing(d, m) ==
  LET Absent(p) == ~Has(m, p.k) IN SelectSeq(d, Absent)

\* C1 as claimed: with defaults D stored, createToken(U) returns the token that
\* createToken(M) returns on a generator with the same credentials and no
\* defaults, for every M that is the merge of D and U with U's values on shared
\* keys, whatever the order M's keys are written in.
C1_MergeAnyOrder ==
  \A g \in Gens, h \in Gens :
    (/\ Returned(g) /\ Returned(h) /\ SameCreds(g, h)
     /\ last[h].this.defaults = <<>>
     /\ AsMap(last[h].user.props)
          = Override(AsMap(last[g].this.defaults), AsMap(last[g].user.props)))
    => Token(g) = Token(h)

\* C1 amended: the tokens are the same when M lists U's entries in U's order
\* followed by D's entries for the keys U lacks, in D's order.
C1_MergeUserFirst ==
  \A g \in Gens, h \in Gens :
    (/\ Returned(g) /\ Returned(h) /\ SameCreds(g, h)
     /\ last[h].this.defaults = <<>>
     /\ last[h].user.props
          = last[g].user.props \o Missing(last[g].this.defaults, last[g].user.props))
    => Token(g) = Token(h)

\* C1's case: defaults {a, b} stored, U naming b with another value, and M
\* written out on a generator without defaults.
C1_Witness ==
  \E g \in Gens, h \in Gens :
    /\ Returned(g) /\ Returned(h) /\ SameCreds(g, h)
    /\ last[h].this.defaults = <<>>
    /\ Keys(last[g].this.defaults) = {kA, kB}
    /\ Get(last[g].user.props, kB) # Undefined
    /\ Get(last[g].user.props, kB) # Get(last[g].this.defaults, kB)
    /\ last[h].user.props
         = last[g].user.props \o Missing(last[g].this.defaults, last[g].user.props)

\* C2 as claimed: createToken with a primitive, an array, or a mapping whose
\* guid is missing, not a string or empty fails, and fails before the merge.
C2_InvalidArgumentFails ==
  \A g \in Gens :
    (Called(g) /\ (~IsMapping(last[g].user) \/ BadGuid(last[g].user)))
    => /\ last[g].out.res.kind = "throw"
       /\ last[g].out.user = last[g].user

\* C3 as claimed: the error for an argument that is not a mapping differs from
\* the error for a mapping with a missing or invalid guid, and neither is a
\* failure unrelated to validation.
C3_DistinctErrors ==
  \A g \in Gens :
    (Thrown(g) /\ ~IsMapping(last[g].user))
    => /\ last[g].out.res.name # "ReferenceError"
       /\ \A lit \in Literals :
            (IsMapping(lit) /\ BadGuid(lit)
             /\ createToken(last[g].this, lit).res.kind = "throw")
            => createToken(last[g].this, lit).res # last[g].out.res

\* C4 as claimed: after createToken the mapping the caller supplied holds the
\* keys and values it held before the call.
C4_ArgumentUnchanged ==
  \A g \in Gens : Called(g) => last[g].out.user = last[g].user

\* C5: constructing with a missing or empty subdomain or key throws and leaves
\* no generator; otherwise the generator holds both values as given and no
\* defaults.
C5_Constructor ==
  \A g \in Gens :
    last[g].op = "new" =>
      IF \/ last[g].subdomain \in {Undefined, Str(<<>>)}
         \/ last[g].ssoKey \in {Undefined, Str(<<>>)}
      THEN /\ last[g].out.kind = "throw"
           /\ last[g].out.name = "Error"
           /\ gen[g] = NoGen
      ELSE /\ last[g].out.kind = "return"
           /\ gen[g] = [subdomain |-> last[g].subdomain, ssoKey |-> last[g].ssoKey,
                        defaults |-> <<>>]

\* C5's case: a subdomain with an empty key.
C5_Witness ==
  /\ last[1].op = "new"
  /\ last[1].subdomain = Str(sC)
  /\ last[1].ssoKey = Str(sEmpty)
  /\ last[1].out.kind = "throw"

\* C6 as claimed: the buffer given to the cipher is the XOR'd payload followed
\* by N bytes of value N, N = 16 - (payload bytes mod 16), its length a positive
\* multiple of 16, and all of it is encrypted.
C6_Padding ==
  \A g \in Gens :
    Returned(g) =>
      LET o == last[g].out
          N == 16 - (Len(o.payload) % 16)
      IN /\ o.padLen = N
         /\ N \in 1..16
         /\ o.data = o.xored \o [i \in 1..N |-> N]
         /\ Len(o.data) = Len(o.payload) + N
         /\ Len(o.data) > 0 /\ Len(o.data) % 16 = 0
         /\ o.res.token.of.blocks = o.data

\* C7: the stored defaults map every key to the value of the latest setDefault
\* naming it; a setDefault removes no key, keeps the keys it does not name,
\* leaves the credentials alone and returns undefined.
C7_SetDefault ==
  \A g \in Gens :
    gen[g] # NoGen =>
      /\ AsMap(gen[g].defaults) = assigned[g]
      /\ Cardinality(Keys(gen[g].defaults)) = Len(gen[g].defaults)
      /\ last[g].op = "setDefault" =>
           LET before == last[g].this
               named == IF u_isObject(last[g].key) THEN Keys(last[g].key.props)
                        ELSE {last[g].key.s}
           IN /\ last[g].out.ret = Undefined
              /\ gen[g].subdomain = before.subdomain
              /\ gen[g].ssoKey = before.ssoKey
              /\ Keys(before.defaults) \subseteq Keys(gen[g].defaults)
              /\ \A k \in Keys(before.defaults) \ named :
                   Get(gen[g].defaults, k) = Get(before.defaults, k)

\* C7's case: a mapping is merged into defaults that hold another key and
\* another value for one of its keys.
C7_Witness ==
  /\ last[1].op = "setDefault"
  /\ u_isObject(last[1].key)
  /\ Keys(last[1].this.defaults) \ Keys(last[1].key.props) # {}
  /\ \E k \in Keys(last[1].key.props) :
       /\ Has(last[1].this.defaults, k)
       /\ Get(last[1].this.defaults, k) # Get(last[1].key.props, k)

C9_Xor ==
  \A g \in Gens :
    Returned(g) =>
      LET p == last[g].out.payload
          x == last[g].out.xored
      IN /\ Len(x) = Len(p)
         /\ \A i \in 1..Len(p) :
              x[i] = IF i <= 16 THEN BitXor(p[i], IvAscii[i]) ELSE p[i]

\* C9's case: a payload shorter than the iv.
C9_Witness == Returned(1) /\ Len(last[1].out.payload) < 16

====
